---- MODULE Spec2Model ----
(***************************************************************************)
(* Model of the name matching engine, src/name_matcher.py (class           *)
(* NameMatcher): the corpus (self.names), the persisted record              *)
(* (self.data_file), the TF-IDF index (self.vectorizer, self.tfidf_matrix)  *)
(* and the operations __init__, add_name, find_matches and                  *)
(* levenshtein_distance.                                                    *)
(*                                                                         *)
(* A Python str is a sequence of one-character strings.  A float score is   *)
(* an exact non-negative rational <<num, den>> with den > 0; the cosine of  *)
(* the tfidf method is carried as its square (see cosine_similarity).       *)
(***************************************************************************)
EXTENDS Integers, Sequences, FiniteSets

VARIABLES
    pc,            \* "new" before NameMatcher(), "idle" once constructed, "raised" if __init__ raised
    file,          \* the record stored at self.data_file
    names,         \* self.names
    vectorizer,    \* self.vectorizer
    tfidf_matrix,  \* self.tfidf_matrix
    last,          \* the last call made on the engine: its arguments and its outcome
    adder,         \* a caller inside add_name: its position and its locals
    reader         \* a caller inside find_matches(query, "tfidf", top_k): its position and its locals

vars == <<pc, file, names, vectorizer, tfidf_matrix, last, adder, reader>>

----------------------------------------------------------------------------
(* Bounds of the model *)

\* add_name is not called once the corpus holds this many entries
MaxNames == 3
\* top_k ranges over 1..MaxTopK
MaxTopK == 2
\* levenshtein_distance is applied to all strings up to this length
MaxLevLen == 3

----------------------------------------------------------------------------
(* Strings *)

Range(s) == { s[i] : i \in 1..Len(s) }

Min2(a, b) == IF a <= b THEN a ELSE b

Max2(a, b) == IF a >= b THEN a ELSE b

\* str.lower() on the model's characters
LowerChar(c) == IF c = "A" THEN "a" ELSE IF c = "B" THEN "b" ELSE c

Lower(s) == [ i \in 1..Len(s) |-> LowerChar(s[i]) ]

\* all strings over alphabet cs of length at most n
RECURSIVE StringsUpTo(_, _)
StringsUpTo(cs, n) ==
    IF n = 0 THEN { <<>> }
    ELSE LET shorter == StringsUpTo(cs, n - 1)
         IN  shorter \cup { Append(s, c) : s \in shorter, c \in cs }

----------------------------------------------------------------------------
(* Scores: exact rationals <<num, den>>, num >= 0, den > 0 *)

Zero == <<0, 1>>

One == <<1, 1>>

\* a/b < c/d for a, c >= 0 and b, d > 0, by continued-fraction expansion
\* (no products, so it stays inside TLC's integers)
RECURSIVE RatLess(_, _, _, _)
RatLess(a, b, c, d) ==
    LET qa == a \div b
        qc == c \div d
        ra == a % b
        rc == c % d
    IN  IF qa # qc THEN qa < qc
        ELSE IF rc = 0 THEN FALSE
        ELSE IF ra = 0 THEN TRUE
        ELSE RatLess(d, rc, b, ra)

ScoreLess(x, y) == RatLess(x[1], x[2], y[1], y[2])

ScoreEq(x, y) == ~ScoreLess(x, y) /\ ~ScoreLess(y, x)

ScorePositive(x) == x[1] > 0

----------------------------------------------------------------------------
(* Edit-distance metric *)

\* A mutant of current_row: a substitution costs 1 even when the characters
\* are equal (the comparison c1 != c2 dropped).
current_row_subst_always(i, c1, s2, previous_row) ==
    LET RECURSIVE Step(_, _)
        Step(row, j) ==
            IF j > Len(s2) THEN row
            ELSE LET insertions    == previous_row[j + 1] + 1
                     deletions     == row[j] + 1
                     substitutions == previous_row[j] + 1
                 IN  Step(Append(row, Min2(insertions, Min2(deletions, substitutions))), j + 1)
    IN  Step(<<i>>, 1)

\* lines 57-62: the row for character c1 (the i-th of s1), from previous_row
current_row(i, c1, s2, previous_row) ==
    LET RECURSIVE Step(_, _)
        Step(row, j) ==
            IF j > Len(s2) THEN row
            ELSE LET insertions    == previous_row[j + 1] + 1
                     deletions     == row[j] + 1
                     substitutions == previous_row[j] + (IF c1 # s2[j] THEN 1 ELSE 0)
                 IN  Step(Append(row, Min2(insertions, Min2(deletions, substitutions))), j + 1)
    IN  Step(<<i>>, 1)

\* lines 55-65: the rolling-row loop, for len(s1) >= len(s2) > 0
rolling_rows(s1, s2) ==
    LET RECURSIVE Loop(_, _)
        Loop(previous_row, i) ==
            IF i > Len(s1) THEN previous_row
            ELSE Loop(current_row(i, s1[i], s2, previous_row), i + 1)
        final == Loop([ j \in 1..(Len(s2) + 1) |-> j - 1 ], 1)
    IN  final[Len(final)]

\* levenshtein_distance(s1, s2): value is the returned distance, calls the
\* number of recursive (operand-swapping) calls made on the way
RECURSIVE levenshtein_distance(_, _)
levenshtein_distance(s1, s2) ==
    IF Len(s1) < Len(s2)
    THEN LET r == levenshtein_distance(s2, s1)
         IN  [value |-> r.value, calls |-> r.calls + 1]
    ELSE IF Len(s2) = 0 THEN [value |-> Len(s1), calls |-> 0]
    ELSE [value |-> rolling_rows(s1, s2), calls |-> 0]

\* normalized_similarity(s1, s2) = 1 - distance / max_len, 1.0 for two empty strings
normalized_similarity(s1, s2) ==
    LET distance == levenshtein_distance(s1, s2).value
        max_len  == Max2(Len(s1), Len(s2))
    IN  IF max_len = 0 THEN One ELSE <<max_len - distance, max_len>>

----------------------------------------------------------------------------
(* Sequence-ratio metric: difflib.SequenceMatcher(None, a, b).ratio(), no   *)
(* junk (isjunk is None, autojunk only acts on strings of 200 or more)      *)

\* length of the common run of a from i and b from j, inside a[..ahi], b[..bhi]
RECURSIVE run_length(_, _, _, _, _, _)
run_length(a, b, i, j, ahi, bhi) ==
    IF i > ahi \/ j > bhi THEN 0
    ELSE IF a[i] # b[j] THEN 0
    ELSE 1 + run_length(a, b, i + 1, j + 1, ahi, bhi)

\* find_longest_match over a[alo..ahi], b[blo..bhi] (inclusive, 1-based): the
\* longest matching block <<i, j, k>>; of the longest ones, the one starting
\* earliest in a, and of those the one starting earliest in b
find_longest_match(a, b, alo, ahi, blo, bhi) ==
    LET cands   == (alo..ahi) \X (blo..bhi)
        size(p) == run_length(a, b, p[1], p[2], ahi, bhi)
        sizes   == { size(p) : p \in cands } \cup {0}
        best    == CHOOSE k \in sizes : \A m \in sizes : m <= k
    IN  IF best = 0 THEN <<alo, blo, 0>>
        ELSE LET p == CHOOSE q \in cands :
                          /\ size(q) = best
                          /\ \A r \in cands : size(r) = best =>
                                 (q[1] < r[1] \/ (q[1] = r[1] /\ q[2] <= r[2]))
             IN  <<p[1], p[2], best>>

\* get_matching_blocks: the total size of the blocks found by matching the
\* longest block and then the pieces to its left and to its right
RECURSIVE matching_size(_, _, _, _, _, _)
matching_size(a, b, alo, ahi, blo, bhi) ==
    LET m == find_longest_match(a, b, alo, ahi, blo, bhi)
        i == m[1]
        j == m[2]
        k == m[3]
    IN  IF k = 0 THEN 0
        ELSE k + matching_size(a, b, alo, i - 1, blo, j - 1)
               + matching_size(a, b, i + k, ahi, j + k, bhi)

\* ratio(): 2.0 * matches / length, 1.0 when both strings are empty
ratio(a, b) ==
    LET length  == Len(a) + Len(b)
        matches == matching_size(a, b, 1, Len(a), 1, Len(b))
    IN  IF length = 0 THEN One ELSE <<2 * matches, length>>

\* sequence_similarity(s1, s2), line 77
sequence_similarity(s1, s2) == ratio(Lower(s1), Lower(s2))

----------------------------------------------------------------------------
(* Combined metric, line 100: seq_score * 0.6 + norm_score * 0.4, in tenths *)

SeqWeight == 6

NormWeight == 4

WeightScale == 10

combined_score(query, name) ==
    LET seq_score  == sequence_similarity(query, name)
        norm_score == normalized_similarity(query, name)
    IN  << SeqWeight * seq_score[1] * norm_score[2] + NormWeight * norm_score[1] * seq_score[2],
           WeightScale * seq_score[2] * norm_score[2] >>

----------------------------------------------------------------------------
(* N-gram vector index: TfidfVectorizer(analyzer='char', ngram_range=(1,3)) *)
(* with the library defaults lowercase=True, smooth_idf=True, norm='l2',    *)
(* sublinear_tf=False                                                       *)

NgramMin == 1

NgramMax == 3

\* the sum of the values of function f
SumOver(f) ==
    LET RECURSIVE Sum(_)
        Sum(T) == IF T = {} THEN 0
                  ELSE LET x == CHOOSE y \in T : TRUE IN f[x] + Sum(T \ {x})
    IN  Sum(DOMAIN f)

\* the analyzer: the distinct character n-grams of the lower-cased document
\* (the model's alphabet holds no white space, which the analyzer would collapse)
char_ngrams(doc) ==
    LET text == Lower(doc)
    IN  { SubSeq(text, i, i + n - 1) :
            <<n, i>> \in { p \in (NgramMin..NgramMax) \X (1..Len(text)) : p[2] + p[1] - 1 <= Len(text) } }

\* term frequency: occurrences of n-gram g in the lower-cased document
term_count(g, doc) ==
    LET text == Lower(doc)
    IN  Cardinality({ i \in 1..(Len(text) - Len(g) + 1) : SubSeq(text, i, i + Len(g) - 1) = g })

\* 10 * (ln((1 + n) / (1 + df)) + 1) rounded, for n documents and document
\* frequency df (smooth idf), IdfTenths[n][df]
IdfTenths ==
    << <<10>>,
       <<14, 10>>,
       <<17, 13, 10>>,
       <<19, 15, 12, 10>>,
       <<21, 17, 14, 12, 10>>,
       <<23, 18, 16, 13, 12, 10>> >>

\* an unfitted vectorizer (as line 44 leaves it), also standing for None (line 13)
Unfitted == [fitted |-> FALSE, vocabulary |-> {}, idf |-> <<>>]

NoMatrix == <<>>

vocabulary_of(docs) == UNION { char_ngrams(docs[i]) : i \in 1..Len(docs) }

\* vectorizer.fit: the vocabulary and the idf weight of each of its n-grams
fit(docs) ==
    LET vocabulary == vocabulary_of(docs)
        df(g)      == Cardinality({ i \in 1..Len(docs) : g \in char_ngrams(docs[i]) })
    IN  [fitted     |-> TRUE,
         vocabulary |-> vocabulary,
         idf        |-> [ g \in vocabulary |-> IdfTenths[Len(docs)][df(g)] ]]

\* vectorizer.transform of one document: tf * idf on the vocabulary, n-grams
\* outside the vocabulary dropped.  The l2 normalisation of the row is left
\* out: it scales the row by a positive factor, which the cosine ignores.
transform_one(v, doc) == [ g \in v.vocabulary |-> term_count(g, doc) * v.idf[g] ]

transform(v, docs) == [ i \in 1..Len(docs) |-> transform_one(v, docs[i]) ]

\* cosine_similarity of two rows over the same vocabulary, as the square of
\* the cosine (dot^2 / (|x|^2 |y|^2)), 0 when either row is all zero; the
\* square keeps the order, the zero and the 1.0 of the non-negative cosine
cosine_similarity(x, y) ==
    LET dot == SumOver([ g \in DOMAIN x |-> x[g] * y[g] ])
        xx  == SumOver([ g \in DOMAIN x |-> x[g] * x[g] ])
        yy  == SumOver([ g \in DOMAIN y |-> y[g] * y[g] ])
    IN  IF xx = 0 \/ yy = 0 THEN Zero ELSE <<dot * dot, xx * yy>>

----------------------------------------------------------------------------
(* Ranking engine.  A match is the tuple (name, score) of the code; pos is  *)
(* the index in self.names of the entry the tuple was made from.            *)

Match(name, score, pos) == [name |-> name, score |-> score, pos |-> pos]

\* Python's None in the place of a name (no string of characters equals it)
None == <<"None">>

NoMatch == Match(None, Zero, 0)

MethodTags == {"combined", "sequence", "levenshtein", "tfidf"}

\* A mutant of sorted_desc: sorted ascending and then reversed, which turns
\* the order of equal scores around.
sorted_then_reversed(matches) ==
    LET RECURSIVE Insert(_, _, _)
        Insert(done, m, i) ==
            IF i > Len(done) \/ ScoreLess(done[i].score, m.score) \/ ScoreEq(done[i].score, m.score)
            THEN SubSeq(done, 1, i - 1) \o <<m>> \o SubSeq(done, i, Len(done))
            ELSE Insert(done, m, i + 1)
        RECURSIVE Sort(_, _)
        Sort(done, k) ==
            IF k > Len(matches) THEN done ELSE Sort(Insert(done, matches[k], 1), k + 1)
    IN  Sort(<<>>, 1)

\* sorted(matches, key=lambda x: x[1], reverse=True): descending by score,
\* stable (equal scores keep the order they had in matches)
sorted_desc(matches) ==
    LET RECURSIVE Insert(_, _, _)
        Insert(done, m, i) ==
            IF i > Len(done) \/ ScoreLess(done[i].score, m.score)
            THEN SubSeq(done, 1, i - 1) \o <<m>> \o SubSeq(done, i, Len(done))
            ELSE Insert(done, m, i + 1)
        RECURSIVE Sort(_, _)
        Sort(done, k) ==
            IF k > Len(matches) THEN done ELSE Sort(Insert(done, matches[k], 1), k + 1)
    IN  Sort(<<>>, 1)

\* tfidf_similarity, lines 79-88, on engine state (ns, v, m).  transform on a
\* vectorizer that is not fitted raises, and the except clause returns [];
\* zip stops at the shorter of self.names and the rows of the matrix.
tfidf_similarity(ns, v, m, query) ==
    IF ~v.fitted THEN <<>>
    ELSE LET query_vec == transform_one(v, query)
             n         == Min2(Len(ns), Len(m))
             results   == [ i \in 1..n |-> Match(ns[i], cosine_similarity(query_vec, m[i]), i) ]
         IN  sorted_desc(results)

\* lines 110-111
sequence_matches(ns, query) ==
    sorted_desc([ i \in 1..Len(ns) |-> Match(ns[i], sequence_similarity(query, ns[i]), i) ])

\* lines 113-114
levenshtein_matches(ns, query) ==
    sorted_desc([ i \in 1..Len(ns) |-> Match(ns[i], normalized_similarity(query, ns[i]), i) ])

\* combined_similarity, lines 90-103
combined_similarity(ns, query) ==
    sorted_desc([ i \in 1..Len(ns) |-> Match(ns[i], combined_score(query, ns[i]), i) ])

\* A mutant of scored_matches: only the tag "combined" selects the combined
\* metric, any other unknown tag scores nothing.
scored_matches_strict(ns, v, m, query, method) ==
    IF method = "tfidf" THEN tfidf_similarity(ns, v, m, query)
    ELSE IF method = "sequence" THEN sequence_matches(ns, query)
    ELSE IF method = "levenshtein" THEN levenshtein_matches(ns, query)
    ELSE IF method = "combined" THEN combined_similarity(ns, query)
    ELSE <<>>

\* lines 107-116: the dispatch on the method tag
scored_matches(ns, v, m, query, method) ==
    IF method = "tfidf" THEN tfidf_similarity(ns, v, m, query)
    ELSE IF method = "sequence" THEN sequence_matches(ns, query)
    ELSE IF method = "levenshtein" THEN levenshtein_matches(ns, query)
    ELSE combined_similarity(ns, query)

\* line 119: keep the matches whose score is > 0
positive_matches(matches) == SelectSeq(matches, LAMBDA x : ScorePositive(x.score))

\* A mutant of first_k: one entry too few (matches[:top_k - 1]).
first_k_off_by_one(matches, top_k) == SubSeq(matches, 1, Min2(top_k - 1, Len(matches)))

\* line 123: matches[:top_k]
first_k(matches, top_k) == SubSeq(matches, 1, Min2(top_k, Len(matches)))

\* A mutant of best_of: the best match taken from the end of the list.
best_of_last(matches) == IF matches # <<>> THEN matches[Len(matches)] ELSE NoMatch

\* line 122: matches[0] if matches else (None, 0.0)
best_of(matches) == IF matches # <<>> THEN matches[1] ELSE NoMatch

\* find_matches, lines 105-126, on engine state (ns, v, m)
find_matches(ns, v, m, query, method, top_k) ==
    LET matches == positive_matches(scored_matches(ns, v, m, query, method))
    IN  [best_match  |-> best_of(matches),
         all_matches |-> first_k(matches, top_k),
         query       |-> query,
         method      |-> method]

----------------------------------------------------------------------------
(* Corpus store *)

\* _get_default_names, lines 27-40: the fixed default list (50 distinct
\* names in the code), cut down to the model's alphabet
_get_default_names == << <<"a", "b">>, <<"b", "a">> >>

\* the record at self.data_file: exists is FALSE when there is no such file,
\* has_names is FALSE when the stored object has no 'names' field
DataFile(exists, has_names, ns) == [exists |-> exists, has_names |-> has_names, names |-> ns]

\* load_names, lines 17-25
load_names(f) ==
    IF ~f.exists THEN _get_default_names
    ELSE IF f.has_names THEN f.names
    ELSE <<>>

\* A mutant of names_after_add: the membership test dropped, the name is
\* appended whether or not the corpus holds it.
names_always_appended(ns, name) == Append(ns, name)

\* lines 130-131: self.names after `if name not in self.names: append`
names_after_add(ns, name) == IF name \in Range(ns) THEN ns ELSE Append(ns, name)

\* _save_names, lines 135-140, when no step of it raises
saved(ns) == DataFile(TRUE, TRUE, ns)

\* _setup_tfidf, lines 42-45, on corpus ns: line 44 replaces the vectorizer,
\* line 45 fits it and assigns the matrix; fit_transform raises ValueError
\* (empty vocabulary) when no document has an n-gram, and the matrix old is kept
_setup_tfidf(ns, old) ==
    IF vocabulary_of(ns) = {}
    THEN [raised |-> TRUE, vectorizer |-> Unfitted, tfidf_matrix |-> old]
    ELSE [raised |-> FALSE, vectorizer |-> fit(ns), tfidf_matrix |-> transform(fit(ns), ns)]

----------------------------------------------------------------------------
(* Inputs *)

\* the names callers add and the stored records hold
Names ==
    { <<>>, <<"a">>, <<"A">>, <<"a", "b">>, <<"b", "a">>, <<"a", "b", "a">> }

\* the queries callers make
Queries == Names \cup { <<"b">>, <<"c">> }

\* the method tags callers pass: the four known ones and an unknown one
Methods == MethodTags \cup {"not-a-real-method"}

\* the records the engine may find at self.data_file when it is constructed
DataFiles ==
    { DataFile(FALSE, FALSE, <<>>), DataFile(TRUE, FALSE, <<>>) } \cup
    { DataFile(TRUE, TRUE, ns) :
        ns \in { <<>>, << <<>> >>, << <<"a">> >>, << <<"a">>, <<"a">> >>,
                 << <<"a", "b">>, <<"A">> >> } }

LevAlphabet == {"a", "b", "c"}

LevStrings == StringsUpTo(LevAlphabet, MaxLevLen)

----------------------------------------------------------------------------
(* The last call: its arguments and its outcome *)

NoResult == [best_match |-> NoMatch, all_matches |-> <<>>, query |-> <<>>, method |-> ""]

NoCall ==
    [op |-> "none", name |-> <<>>, query |-> <<>>, method |-> "", top_k |-> 0,
     result |-> NoResult, returned |-> "None", raised |-> FALSE, inserted |-> FALSE,
     s1 |-> <<>>, s2 |-> <<>>, distance |-> 0, calls |-> 0]

\* a caller that is not inside add_name
NoAdder == [pc |-> "out", name |-> <<>>, matrix |-> NoMatrix]

\* a caller that is not inside find_matches
NoReader ==
    [pc |-> "out", query |-> <<>>, top_k |-> 0, vectorizer |-> Unfitted,
     query_vec |-> <<>>, tfidf_matrix |-> NoMatrix, similarities |-> <<>>,
     names |-> <<>>, matches |-> <<>>, caught |-> ""]

----------------------------------------------------------------------------
(* The engine, its calls made one after the other *)

Init ==
    /\ pc = "new"
    /\ file \in DataFiles
    /\ names = <<>>
    /\ vectorizer = Unfitted
    /\ tfidf_matrix = NoMatrix
    /\ last = NoCall
    /\ adder = NoAdder
    /\ reader = NoReader

\* NameMatcher(), lines 10-15
Construct ==
    /\ pc = "new"
    /\ LET loaded == load_names(file)
           index  == _setup_tfidf(loaded, NoMatrix)
       IN  /\ names' = loaded
           /\ vectorizer' = index.vectorizer
           /\ tfidf_matrix' = index.tfidf_matrix
           /\ pc' = IF index.raised THEN "raised" ELSE "idle"
           /\ last' = [NoCall EXCEPT !.op = "init", !.raised = index.raised]
    /\ UNCHANGED <<file, adder, reader>>

\* add_name(name), lines 128-133; _save_names either completes or raises
\* (OSError from makedirs or open) before anything is written.  The method
\* has no return statement: it returns None.
AddName(name) ==
    /\ pc = "idle"
    /\ name \in Range(names) \/ Len(names) < MaxNames
    /\ LET appended == names_after_add(names, name)
           inserted == appended # names
           call     == [NoCall EXCEPT !.op = "add", !.name = name, !.inserted = inserted]
       IN  /\ names' = appended
           /\ IF ~inserted
              THEN /\ last' = call
                   /\ UNCHANGED <<file, vectorizer, tfidf_matrix>>
              ELSE \/ LET index == _setup_tfidf(appended, tfidf_matrix)
                      IN  /\ file' = saved(appended)
                          /\ vectorizer' = index.vectorizer
                          /\ tfidf_matrix' = index.tfidf_matrix
                          /\ last' = [call EXCEPT !.raised = index.raised]
                   \/ /\ last' = [call EXCEPT !.raised = TRUE]
                      /\ UNCHANGED <<file, vectorizer, tfidf_matrix>>
    /\ UNCHANGED <<pc, adder, reader>>

\* find_matches(query, method, top_k), lines 105-126.  A query leaves the
\* engine as it was, so what a query made after another query returns is what
\* it returns when made in its place: queries are made in the states that the
\* construction or an add_name leaves.
FindMatches(query, method, top_k) ==
    /\ pc = "idle"
    /\ last.op # "find"
    /\ last' = [NoCall EXCEPT !.op = "find", !.query = query, !.method = method,
                              !.top_k = top_k,
                              !.result = find_matches(names, vectorizer, tfidf_matrix,
                                                      query, method, top_k)]
    /\ UNCHANGED <<pc, file, names, vectorizer, tfidf_matrix, adder, reader>>

Next ==
    \/ Construct
    \/ \E name \in Names : AddName(name)
    \/ \E query \in Queries, method \in Methods, top_k \in 1..MaxTopK :
          FindMatches(query, method, top_k)

Spec == Init /\ [][Next]_vars

----------------------------------------------------------------------------
(* levenshtein_distance as a pure function: the operands are drawn at the   *)
(* start, on an engine constructed from the default names                   *)

InitLev ==
    /\ pc = "idle"
    /\ file = DataFile(FALSE, FALSE, <<>>)
    /\ names = _get_default_names
    /\ vectorizer = fit(names)
    /\ tfidf_matrix = transform(fit(names), names)
    /\ \E s1 \in LevStrings, s2 \in LevStrings :
          last = [NoCall EXCEPT !.op = "lev_call", !.s1 = s1, !.s2 = s2]
    /\ adder = NoAdder
    /\ reader = NoReader

\* levenshtein_distance(s1, s2), lines 47-65
LevReturn ==
    /\ last.op = "lev_call"
    /\ LET r == levenshtein_distance(last.s1, last.s2)
       IN  last' = [last EXCEPT !.op = "lev", !.distance = r.value, !.calls = r.calls]
    /\ UNCHANGED <<pc, file, names, vectorizer, tfidf_matrix, adder, reader>>

NextLev == LevReturn

SpecLev == InitLev /\ [][NextLev]_vars

----------------------------------------------------------------------------
(* Two callers on one engine, one inside add_name and one inside            *)
(* find_matches(query, "tfidf", top_k), their statements interleaved: the   *)
(* engine takes no lock.  adder.pc and reader.pc are the line about to run. *)

\* the engine as NameMatcher() leaves it
InitConc ==
    /\ pc = "idle"
    /\ file \in { f \in DataFiles : vocabulary_of(load_names(f)) # {} }
    /\ names = load_names(file)
    /\ vectorizer = fit(names)
    /\ tfidf_matrix = transform(fit(names), names)
    /\ last = [NoCall EXCEPT !.op = "init"]
    /\ adder = NoAdder
    /\ reader = NoReader

\* add_name(name) is called, line 130: `if name not in self.names`
AddEnter(name) ==
    /\ adder.pc = "out"
    /\ name \in Range(names) \/ Len(names) < MaxNames
    /\ IF name \in Range(names)
       THEN /\ adder' = NoAdder
            /\ last' = [NoCall EXCEPT !.op = "add", !.name = name]
       ELSE /\ adder' = [NoAdder EXCEPT !.pc = "131", !.name = name]
            /\ UNCHANGED last
    /\ UNCHANGED <<pc, file, names, vectorizer, tfidf_matrix, reader>>

\* line 131: self.names.append(name)
AddAppend ==
    /\ adder.pc = "131"
    /\ names' = Append(names, adder.name)
    /\ adder' = [adder EXCEPT !.pc = "132"]
    /\ UNCHANGED <<pc, file, vectorizer, tfidf_matrix, last, reader>>

\* line 132: self._save_names(), which completes or raises out of add_name
AddSave ==
    /\ adder.pc = "132"
    /\ \/ /\ file' = saved(names)
          /\ adder' = [adder EXCEPT !.pc = "44"]
          /\ UNCHANGED last
       \/ /\ adder' = NoAdder
          /\ last' = [NoCall EXCEPT !.op = "add", !.name = adder.name,
                                    !.inserted = TRUE, !.raised = TRUE]
          /\ UNCHANGED file
    /\ UNCHANGED <<pc, names, vectorizer, tfidf_matrix, reader>>

\* line 44: self.vectorizer = TfidfVectorizer(...), not fitted yet
AddNewVectorizer ==
    /\ adder.pc = "44"
    /\ vectorizer' = Unfitted
    /\ adder' = [adder EXCEPT !.pc = "45"]
    /\ UNCHANGED <<pc, file, names, tfidf_matrix, last, reader>>

\* line 45, the call self.vectorizer.fit_transform(self.names): it fits the
\* vectorizer object and returns the matrix, which is not assigned yet
AddFitTransform ==
    /\ adder.pc = "45"
    /\ vectorizer' = fit(names)
    /\ adder' = [adder EXCEPT !.pc = "45_assign", !.matrix = transform(fit(names), names)]
    /\ UNCHANGED <<pc, file, names, tfidf_matrix, last, reader>>

\* line 45, the assignment self.tfidf_matrix = ...; add_name returns
AddAssign ==
    /\ adder.pc = "45_assign"
    /\ tfidf_matrix' = adder.matrix
    /\ adder' = NoAdder
    /\ last' = [NoCall EXCEPT !.op = "add", !.name = adder.name, !.inserted = TRUE]
    /\ UNCHANGED <<pc, file, names, vectorizer, reader>>

\* find_matches(query, "tfidf", top_k) is called, lines 107-108 and 81
FindEnter(query, top_k) ==
    /\ reader.pc = "out"
    /\ reader' = [NoReader EXCEPT !.pc = "82", !.query = query, !.top_k = top_k]
    /\ UNCHANGED <<pc, file, names, vectorizer, tfidf_matrix, last, adder>>

\* line 82: query_vec = self.vectorizer.transform([query]); on a vectorizer
\* that is not fitted transform raises, and the except clause returns []
FindTransform ==
    /\ reader.pc = "82"
    /\ reader' = IF ~vectorizer.fitted
                 THEN [reader EXCEPT !.pc = "119", !.vectorizer = vectorizer,
                                     !.caught = "NotFittedError"]
                 ELSE [reader EXCEPT !.pc = "83", !.vectorizer = vectorizer,
                                     !.query_vec = transform_one(vectorizer, reader.query)]
    /\ UNCHANGED <<pc, file, names, vectorizer, tfidf_matrix, last, adder>>

\* line 83: similarities = cosine_similarity(query_vec, self.tfidf_matrix);
\* when the matrix has other columns than query_vec it raises ValueError,
\* and the except clause returns []
FindCosine ==
    /\ reader.pc = "83"
    /\ reader' = IF \E i \in 1..Len(tfidf_matrix) :
                        DOMAIN tfidf_matrix[i] # DOMAIN reader.query_vec
                 THEN [reader EXCEPT !.pc = "119", !.tfidf_matrix = tfidf_matrix,
                                     !.caught = "ValueError"]
                 ELSE [reader EXCEPT !.pc = "84", !.tfidf_matrix = tfidf_matrix,
                                     !.similarities =
                                         [ i \in 1..Len(tfidf_matrix) |->
                                             cosine_similarity(reader.query_vec, tfidf_matrix[i]) ]]
    /\ UNCHANGED <<pc, file, names, vectorizer, tfidf_matrix, last, adder>>

\* lines 84-85: results = list(zip(self.names, similarities)), sorted
FindZip ==
    /\ reader.pc = "84"
    /\ LET n       == Min2(Len(names), Len(reader.similarities))
           results == [ i \in 1..n |-> Match(names[i], reader.similarities[i], i) ]
       IN  reader' = [reader EXCEPT !.pc = "119", !.names = names,
                                    !.matches = sorted_desc(results)]
    /\ UNCHANGED <<pc, file, names, vectorizer, tfidf_matrix, last, adder>>

\* lines 119-126: the filter, best_match and the first top_k; the call returns
FindReturn ==
    /\ reader.pc = "119"
    /\ LET matches == positive_matches(reader.matches)
       IN  last' = [NoCall EXCEPT !.op = "find", !.query = reader.query,
                                  !.method = "tfidf", !.top_k = reader.top_k,
                                  !.result = [best_match  |-> best_of(matches),
                                              all_matches |-> first_k(matches, reader.top_k),
                                              query       |-> reader.query,
                                              method      |-> "tfidf"]]
    /\ reader' = NoReader
    /\ UNCHANGED <<pc, file, names, vectorizer, tfidf_matrix, adder>>

NextConc ==
    \/ \E name \in Names : AddEnter(name)
    \/ AddAppend
    \/ AddSave
    \/ AddNewVectorizer
    \/ AddFitTransform
    \/ AddAssign
    \/ \E query \in Queries, top_k \in 1..MaxTopK : FindEnter(query, top_k)
    \/ FindTransform
    \/ FindCosine
    \/ FindZip
    \/ FindReturn

SpecConc == InitConc /\ [][NextConc]_vars

----------------------------------------------------------------------------
(* Properties *)

IsPrefix(s, t) == Len(s) <= Len(t) /\ SubSeq(t, 1, Len(s)) = s

\* C1: whenever a caller can issue a query (the engine is constructed and no
\* call is running), the vectorizer and the document matrix are the ones
\* built from the current corpus, one row per corpus entry in corpus order.
\* Stated as the claim has it; add_name leaves the old index in place when
\* _save_names raises after the append.
IndexConsistent ==
    pc = "idle" =>
        /\ vectorizer = fit(names)
        /\ Len(tfidf_matrix) = Len(names)
        /\ \A i \in 1..Len(names) : tfidf_matrix[i] = transform_one(vectorizer, names[i])

\* C2: a step of add_name(name) leaves the corpus unchanged when an entry
\* equals name and otherwise appends name as the last entry; adding the same
\* name twice in a row changes nothing the second time; and no step on a
\* constructed engine removes, renames or reorders an entry.
AddAppendsIfAbsent ==
    [][ /\ last'.op = "add" =>
            names' = IF last'.name \in Range(names) THEN names
                     ELSE Append(names, last'.name)
        /\ (last.op = "add" /\ last'.op = "add" /\ last'.name = last.name) =>
            names' = names
        /\ pc = "idle" => IsPrefix(names, names')
      ]_vars

\* C2 witness: an add_name has appended its name to a non-empty corpus
AddAppended ==
    /\ last.op = "add"
    /\ last.inserted
    /\ Len(names) >= 2
    /\ names[Len(names)] = last.name
    /\ last.name \notin Range(SubSeq(names, 1, Len(names) - 1))

\* C3: when add_name(name) has inserted a name that was absent, the query
\* find_matches(name, "tfidf", 1) made next returns best_match = (name, 1.0).
\* Stated as the claim has it, on the calls where name is not the empty
\* string and add_name returned normally (so the index has been rebuilt).
AddedNameIsBestTfidf ==
    [][ ( /\ last.op = "add"
          /\ last.inserted
          /\ ~last.raised
          /\ last.name # <<>>
          /\ last'.op = "find"
          /\ last'.method = "tfidf"
          /\ last'.top_k = 1
          /\ last'.query = last.name )
        => /\ last'.result.best_match.name = last.name
           /\ ScoreEq(last'.result.best_match.score, One)
      ]_vars

\* C4: the ranked matches of every query are in non-increasing order of
\* score, and two of them with equal scores are in corpus order; each is an
\* entry of the corpus.
RankedOrderStable ==
    last.op = "find" =>
        LET ranked == last.result.all_matches
        IN  /\ \A i \in 1..Len(ranked) :
                  /\ ranked[i].pos \in 1..Len(names)
                  /\ names[ranked[i].pos] = ranked[i].name
            /\ \A i, j \in 1..Len(ranked) :
                  i < j =>
                    /\ ~ScoreLess(ranked[i].score, ranked[j].score)
                    /\ ScoreEq(ranked[i].score, ranked[j].score) =>
                          ranked[i].pos < ranked[j].pos

\* C4 witness: a query has returned two different entries with equal scores
RankedTie ==
    /\ last.op = "find"
    /\ Len(last.result.all_matches) = 2
    /\ ScoreEq(last.result.all_matches[1].score, last.result.all_matches[2].score)
    /\ last.result.all_matches[1].name # last.result.all_matches[2].name

\* the score of query against corpus entry name under the metric that the
\* method tag selects, the tfidf metric being the cosine in the index of
\* the corpus ns
MetricScore(ns, query, method, name) ==
    IF method = "tfidf"
    THEN IF vocabulary_of(ns) = {} THEN Zero
         ELSE cosine_similarity(transform_one(fit(ns), query), transform_one(fit(ns), name))
    ELSE IF method = "sequence" THEN sequence_similarity(query, name)
    ELSE IF method = "levenshtein" THEN normalized_similarity(query, name)
    ELSE combined_score(query, name)

\* C5: the ranked matches of every query have scores > 0, their number is
\* min(top_k, P) for P the number of corpus entries with a positive score
\* under the chosen metric, and they are the first min(top_k, P) of the
\* positive entries in rank order.  Stated as the claim has it.
TopKOfPositive ==
    last.op = "find" =>
        LET ranked   == last.result.all_matches
            scored   == [ i \in 1..Len(names) |->
                            Match(names[i],
                                  MetricScore(names, last.query, last.method, names[i]), i) ]
            positive == { i \in 1..Len(names) : ScorePositive(scored[i].score) }
            P        == Cardinality(positive)
            wanted   == positive_matches(sorted_desc(scored))
        IN  /\ \A i \in 1..Len(ranked) : ScorePositive(ranked[i].score)
            /\ Len(ranked) = Min2(last.top_k, P)
            /\ \A i \in 1..Len(ranked) : i <= Len(wanted) /\ ranked[i].pos = wanted[i].pos

\* C6 as the claim has it: a query with an unknown method tag returns the
\* very QueryResult that the same query returns with the tag "combined".
UnknownTagSameResult ==
    (last.op = "find" /\ last.method \notin MethodTags) =>
        last.result = find_matches(names, vectorizer, tfidf_matrix,
                                   last.query, "combined", last.top_k)

\* C6, amended: a query with an unknown method tag returns the query, the
\* best_match and the ranked matches of the combined metric, and its method
\* field is the tag that was passed.
UnknownTagSameMatches ==
    (last.op = "find" /\ last.method \notin MethodTags) =>
        LET ranked == positive_matches(combined_similarity(names, last.query))
        IN  /\ last.result.best_match = best_of(ranked)
            /\ last.result.all_matches = first_k(ranked, last.top_k)
            /\ last.result.query = last.query
            /\ last.result.method = last.method

\* C6 witness: a query with an unknown tag has returned matches
UnknownTagMatched ==
    /\ last.op = "find"
    /\ last.method \notin MethodTags
    /\ Len(last.result.all_matches) = 2

\* C7: in every QueryResult best_match is the first of the ranked matches
\* when there are any, it is (None, 0.0) exactly when no corpus entry scored
\* above zero in the call, and it is never an entry missing from the ranked
\* matches.
BestMatchHeadsRanked ==
    last.op = "find" =>
        LET r      == last.result
            scored == scored_matches(names, vectorizer, tfidf_matrix, last.query, last.method)
        IN  /\ r.all_matches # <<>> => r.best_match = r.all_matches[1]
            /\ r.best_match = NoMatch <=>
                  \A i \in 1..Len(scored) : ~ScorePositive(scored[i].score)
            /\ r.best_match = NoMatch <=> r.all_matches = <<>>
            /\ r.best_match # NoMatch =>
                  \E i \in 1..Len(r.all_matches) : r.all_matches[i] = r.best_match

\* C7 witness: a query has returned two matches of different scores
BestOfTwo ==
    /\ last.op = "find"
    /\ Len(last.result.all_matches) = 2
    /\ ScoreLess(last.result.all_matches[2].score, last.result.all_matches[1].score)
    /\ last.result.best_match = last.result.all_matches[1]

\* C8: with an empty corpus the engine is still constructed, and every query
\* returns best_match = (None, 0.0) and no ranked matches.  Stated as the
\* claim has it.
EmptyCorpusNotFatal ==
    (pc # "new" /\ names = <<>>) =>
        /\ pc = "idle"
        /\ last.op = "find" =>
              (last.result.best_match = NoMatch /\ last.result.all_matches = <<>>)

\* C9: add_name returns true when it has inserted the name and false when
\* an equal entry was present.  Stated as the claim has it.
AddReturnsBoolean ==
    (last.op = "add" /\ ~last.raised) =>
        last.returned = IF last.inserted THEN "True" ELSE "False"

\* the classic Levenshtein distance, by its recurrence on the last characters
RECURSIVE EditDistance(_, _)
EditDistance(a, b) ==
    IF Len(a) = 0 THEN Len(b)
    ELSE IF Len(b) = 0 THEN Len(a)
    ELSE LET a1 == SubSeq(a, 1, Len(a) - 1)
             b1 == SubSeq(b, 1, Len(b) - 1)
         IN  Min2(EditDistance(a1, b) + 1,
                  Min2(EditDistance(a, b1) + 1,
                       EditDistance(a1, b1) + (IF a[Len(a)] = b[Len(b)] THEN 0 ELSE 1)))

\* C10: levenshtein_distance(a, b) is the classic edit distance; it is
\* symmetric, 0 on equal strings and |s| against the empty string, and the
\* operand-swapping recursive call is made at most once.
LevenshteinIsEditDistance ==
    last.op = "lev" =>
        /\ last.distance = EditDistance(last.s1, last.s2)
        /\ last.distance = levenshtein_distance(last.s2, last.s1).value
        /\ last.s1 = last.s2 => last.distance = 0
        /\ last.s1 = <<>> => last.distance = Len(last.s2)
        /\ last.calls <= 1
        /\ last.calls = 1 <=> Len(last.s1) < Len(last.s2)

\* C10 witness: a call with the shorter string first has swapped its
\* operands once and found a distance that needs a substitution
LevSwapped ==
    /\ last.op = "lev"
    /\ Len(last.s1) = 2
    /\ Len(last.s2) = 3
    /\ last.calls = 1
    /\ last.distance = 2

\* C11: whenever a caller can issue a call, loading from the store gives
\* the engine's corpus, same entries in the same order, and an add_name that
\* appended a name has written the full corpus to the store.  Stated as the
\* claim has it; add_name appends before it saves and keeps the appended
\* name when _save_names raises.
StoreInStep ==
    pc = "idle" =>
        /\ load_names(file) = names
        /\ (last.op = "add" /\ last.inserted) => file = saved(names)

\* C12: a find_matches(q, "tfidf", k) interleaved with an add_name on the
\* same engine reads its vectorizer, its matrix and its name list from one
\* corpus snapshot: it never reads a vectorizer that is not fitted, never
\* pairs a matrix with a vectorizer of other columns, and once it has read
\* all three, the vectorizer and the matrix are those built from the name
\* list it read, one row per name.  Stated as the claim has it.
QueryReadsOneSnapshot ==
    /\ reader.caught = ""
    /\ reader.pc = "119" =>
          /\ Len(reader.names) = Len(reader.tfidf_matrix)
          /\ reader.vectorizer = fit(reader.names)
          /\ reader.tfidf_matrix = transform(reader.vectorizer, reader.names)

====
